---------------------------- MODULE Spec2Model ----------------------------
(***************************************************************************)
(* The user-account backend: the Express routes of user.routes.js, the     *)
(* access-token gate verifyJWT, the handlers of user.controller.js, the    *)
(* User model (token minting, password hashing) and the asyncHandler       *)
(* wrapper, as a state machine over the users collection, the clock, the   *)
(* tokens handed to clients, the temp files on disk and the requests.      *)
(* One action is one middleware or handler of a route, run to its          *)
(* response.                                                               *)
(***************************************************************************)
EXTENDS Integers, Sequences, FiniteSets, TLC

(* ------------------------------ bounds -------------------------------- *)

\* The clock (in seconds, the granularity of a JWT's iat/exp) runs 0..MaxClock.
MaxClock == 1


(* --------------------------- configuration ---------------------------- *)

\* process.env.ACCESS_TOKEN_EXPIRY and process.env.REFRESH_TOKEN_EXPIRY, in ticks.
AccessExpiry == 1

RefreshExpiry == 2

(* ------------------------------ values -------------------------------- *)

\* JavaScript's undefined, for a body field, cookie or header that is absent.
Undef == "undefined"

\* The connections clients send requests on.
Slots == {1}

\* The _id values the store can hand out, in order.
UserIds == {1, 2}

Usernames == {"alice", "bob"}

Emails == {"a@x.com", "b@x.com"}

Passwords == {"p1", "p2"}

FileFields == {"avatar", "coverImage"}

\* String.prototype.toLowerCase / the schema's lowercase: true, on the strings used.
Lower(s) ==
  CASE s = "Alice" -> "alice"
    [] s = "Bob" -> "bob"
    [] s = "A@x.com" -> "a@x.com"
    [] s = "B@x.com" -> "b@x.com"
    [] OTHER -> s

\* bcryptjs.hash: the stored value is not the password.
Hash(p) == <<"bcrypt", p>>

\* bcryptjs.compare of a supplied password with a stored hash.
isPasswordCorrect(doc, password) == doc.password = Hash(password)

(* ------------------------------ tokens -------------------------------- *)

\* No token: an absent cookie or header, an unset refreshToken field, undefined.
NoToken == [typ |-> "none", id |-> 0, iat |-> 0, exp |-> 0, claims |-> <<>>]

\* A string that no secret of the server signed.
ForgedToken == [typ |-> "forged", id |-> 1, iat |-> 0, exp |-> 0, claims |-> <<>>]

\* jwt.sign with ACCESS_TOKEN_SECRET: the payload, iat in seconds and exp = iat + expiry.
generateAccessToken(doc, now) ==
  [typ |-> "access", id |-> doc.id, iat |-> now, exp |-> now + AccessExpiry,
   claims |-> <<doc.email, doc.username, doc.fullName>>]

\* jwt.sign with REFRESH_TOKEN_SECRET: the payload holds the id only.
generateRefreshToken(doc, now) ==
  [typ |-> "refresh", id |-> doc.id, iat |-> now, exp |-> now + RefreshExpiry,
   claims |-> <<>>]

\* A verification that still accepts a token in the second it expires.
jwtVerifyLate(token, secret, now) == token.typ = secret /\ now <= token.exp

\* jwt.verify(token, secret): the signature is the secret's and now < exp.
jwtVerify(token, secret, now) == token.typ = secret /\ now < token.exp

(* ------------------------------ state --------------------------------- *)

VARIABLES
  users,    \* the users collection: _id -> document
  freeIds,  \* the _id values the store has not handed out yet
  clock,    \* the time in seconds
  issued,   \* the tokens sent to clients so far
  disk,     \* the temp files in ./public/temp
  reqs      \* per connection: the request in flight or the last one answered

vars == <<users, freeIds, clock, issued, disk, reqs>>

\* The _id the next created document gets.
nextId == CHOOSE i \in freeIds : \A j \in freeIds : i <= j

\* req.user when no gate attached one; an account record of no account.
NoUser ==
  [id |-> 0, username |-> "", email |-> "", fullName |-> "", avatar |-> "",
   coverImage |-> ""]

\* A projection that drops nothing.
SelectEverything(doc) == doc

\* .select("-password -refreshToken")
Sanitize(doc) == [f \in (DOMAIN doc) \ {"password", "refreshToken"} |-> doc[f]]

NoBody ==
  [fullName |-> Undef, email |-> Undef, username |-> Undef, password |-> Undef,
   oldPassword |-> Undef, newPassword |-> Undef, refreshToken |-> NoToken]

\* No response sent yet.
NoRes ==
  [status |-> 0, cookieAccess |-> NoToken, cookieRefresh |-> NoToken,
   cleared |-> FALSE, user |-> NoUser, accessToken |-> NoToken,
   refreshToken |-> NoToken, unhandled |-> FALSE]

Idle ==
  [op |-> "idle", pos |-> 0, cookieAccess |-> NoToken, cookieRefresh |-> NoToken,
   bearer |-> NoToken, body |-> NoBody, param |-> Undef, parts |-> {},
   files |-> {}, file |-> {}, user |-> NoUser, ran |-> {}, res |-> NoRes]

Init ==
  /\ users = <<>>
  /\ freeIds = {1}
  /\ clock = 0
  /\ issued = {}
  /\ disk = {}
  /\ reqs = [s \in Slots |-> Idle]

(* ------------------------------ routes -------------------------------- *)

\* router.route(...) of user.routes.js: the middlewares of each route, in order.
Route(op) ==
  CASE op = "register" -> <<"upload", "registerUser">>
    [] op = "login" -> <<"loginUser">>
    [] op = "logout" -> <<"verifyJWT", "logoutUser">>
    [] op = "refresh-token" -> <<"refreshAccessToken">>
    [] op = "change-password" -> <<"verifyJWT", "changeCurrentPassword">>
    [] op = "current-user" -> <<"verifyJWT", "getCurrentUser">>
    [] op = "update-account" -> <<"verifyJWT", "updateAccountDetails">>
    [] op = "avatar" -> <<"verifyJWT", "upload", "updateUserAvatar">>
    [] op = "cover-image" -> <<"verifyJWT", "upload", "updateUserCoverImage">>
    [] op = "channel" -> <<"verifyJWT", "getUserChannelUserProfile">>
    [] op = "watchHistory" -> <<"verifyJWT", "getWatchHistory">>
    [] OTHER -> <<>>

ProtectedOps ==
  {"logout", "change-password", "current-user", "update-account", "avatar",
   "cover-image", "channel", "watchHistory"}

\* The middleware the request of slot s waits in ("" when none is in flight).
At(s) ==
  IF reqs[s].pos >= 1 /\ reqs[s].pos <= Len(Route(reqs[s].op))
  THEN Route(reqs[s].op)[reqs[s].pos]
  ELSE ""


(* ------------------------------ store --------------------------------- *)

\* The result of a lookup that matches no document (null).
NoDoc ==
  [id |-> 0, username |-> "", email |-> "", fullName |-> "", avatar |-> "",
   coverImage |-> "", password |-> <<"", "">>, refreshToken |-> NoToken]

\* User.findById
findById(us, id) == IF id \in DOMAIN us THEN us[id] ELSE NoDoc

\* A lookup that compares the filter's strings as they were given.
findOneRaw(us, email, username) ==
  LET hits == {i \in DOMAIN us : us[i].email = email \/ us[i].username = username}
  IN IF hits = {} THEN NoDoc ELSE us[CHOOSE i \in hits : \A j \in hits : i <= j]

\* User.findOne({ $or: [{ email }, { username }] }): the filter is cast by the
\* schema (lowercase: true on both paths), then the first match in natural
\* order; an undefined value matches no stored value.
findOne(us, email, username) ==
  LET hits == {i \in DOMAIN us : us[i].email = Lower(email)
                                   \/ us[i].username = Lower(username)}
  IN IF hits = {} THEN NoDoc ELSE us[CHOOSE i \in hits : \A j \in hits : i <= j]

\* A collection without the unique indexes.
DuplicateKeyNoIndex(us, id, doc) == FALSE

\* The unique indexes of the schema (username, email): would writing doc under
\* id break one?
DuplicateKey(us, id, doc) ==
  \E j \in (DOMAIN us) \ {id} :
    us[j].username = doc.username \/ us[j].email = doc.email

(* ------------------------------ errors -------------------------------- *)

\* throw new ApiError(statusCode, message)
ApiError(statusCode) == [name |-> "ApiError", statusCode |-> statusCode]

\* An error that carries no statusCode: a TypeError, a ReferenceError, a
\* mongoose ValidationError, a duplicate-key error of the store.
PlainError(name) == [name |-> name, statusCode |-> 0]

\* ApiError(...) called without new: the class constructor throws a TypeError.
CallWithoutNew(statusCode) == PlainError("TypeError")

\* asyncHandler's catch hands the error to next(err); no error middleware is
\* installed, so Express answers with err.statusCode when it is an error
\* status and with 500 otherwise.
ExpressStatus(err) ==
  IF err.statusCode >= 400 /\ err.statusCode <= 599 THEN err.statusCode ELSE 500

(* ------------------------------ files --------------------------------- *)

\* The path multer's diskStorage gives the file of a field of the request of slot s.
Path(s, f) == <<s, f>>

\* An upload helper that leaves the local file where it is.
uploadOnCloudinaryKeepsFile(hasPath, path, url, d) ==
  [url |-> IF hasPath THEN url ELSE "", disk |-> d]

\* uploadOnCloudinary(localFilePath): null for no path; else the upload's
\* result (its url, "" for a failed upload's null), the local file unlinked
\* either way.
uploadOnCloudinary(hasPath, path, url, d) ==
  IF ~hasPath THEN [url |-> "", disk |-> d]
  ELSE [url |-> url, disk |-> d \ {path}]

\* deleteFile of registerUser's catch block: guarded by fs.existsSync.
deleteFile(path, d) == d \ {path}

\* asyncHandler's finally: fs.unlinkSync of req.files.avatar[0].path and then of
\* req.files.coverImage[0].path; unlinkSync of a missing file throws, out of the
\* promise chain.
Finally(s, files, d) ==
  LET a == Path(s, "avatar")
      c == Path(s, "coverImage")
      aThrows == "avatar" \in files /\ a \notin d
      d1 == IF "avatar" \in files THEN d \ {a} ELSE d
      cThrows == ~aThrows /\ "coverImage" \in files /\ c \notin d1
      d2 == IF ~aThrows /\ "coverImage" \in files THEN d1 \ {c} ELSE d1
  IN [disk |-> d2, unhandled |-> aThrows \/ cThrows]

(* -------------------------- request plumbing -------------------------- *)

\* The request of slot s answered with res; its handler name joins ran.
Answer(s, name, res) ==
  reqs' = [reqs EXCEPT ![s].pos = 0, ![s].ran = @ \cup {name}, ![s].res = res]

\* An error answer: only the status is sent.
ErrorRes(err) == [NoRes EXCEPT !.status = ExpressStatus(err)]

\* Tokens a client can send: those it was given, and a forged one.
Presentable == issued \cup {ForgedToken}

NewReq(op) == [Idle EXCEPT !.op = op, !.pos = 1]

\* The access token of a request: in the cookie, or in the Authorization
\* header, or in neither.
WithAccess(r) ==
  {[r EXCEPT !.cookieAccess = c] : c \in Presentable \cup {NoToken}}
  \cup {[r EXCEPT !.bearer = b] : b \in Presentable}

\* Registrations: well-formed ones, and one of each malformed kind.
RegisterRequests ==
  IF freeIds = {} THEN {}
  ELSE LET good == [NoBody EXCEPT !.fullName = "A", !.email = "a@x.com",
                                  !.username = "alice", !.password = "p1"]
       IN {[NewReq("register") EXCEPT
              !.body = [good EXCEPT !.email = em, !.username = un],
              !.parts = ps] :
             em \in Emails, un \in Usernames,
             ps \in {{"avatar"}, {"avatar", "coverImage"}}}
          \cup {[NewReq("register") EXCEPT !.body = b, !.parts = {"avatar"}] :
                  b \in {[good EXCEPT !.fullName = ""],
                         [good EXCEPT !.username = Undef],
                         [good EXCEPT !.email = Undef]}}
          \cup {[NewReq("register") EXCEPT !.body = good, !.parts = ps] :
                  ps \in {{}, {"coverImage"}}}

\* Logins: by email, by username, by neither.
LoginRequests ==
  {[NewReq("login") EXCEPT
      !.body = [NoBody EXCEPT !.email = id[1], !.username = id[2],
                              !.password = pw]] :
     id \in ((Emails \X {Undef}) \cup ({Undef} \X Usernames)
             \cup {<<Undef, Undef>>}),
     pw \in Passwords}

\* Renewals: the token in the cookie, or in the body, or in neither.
RefreshRequests ==
  {[NewReq("refresh-token") EXCEPT !.cookieRefresh = c] :
     c \in Presentable \cup {NoToken}}
  \cup {[NewReq("refresh-token") EXCEPT !.body.refreshToken = b] :
          b \in Presentable}

ProtectedRequests ==
  UNION {WithAccess(r) :
    r \in {NewReq("logout"), NewReq("current-user"), NewReq("watchHistory")}
          \cup {[NewReq("change-password") EXCEPT
                   !.body.oldPassword = o, !.body.newPassword = "p2"] :
                  o \in Passwords}
          \cup {[NewReq("update-account") EXCEPT
                   !.body.fullName = fn, !.body.email = em] :
                  fn \in {Undef, "B"}, em \in {Undef, "b@x.com"}}
          \cup {[NewReq("avatar") EXCEPT !.parts = ps] : ps \in SUBSET {"avatar"}}
          \cup {[NewReq("cover-image") EXCEPT !.parts = ps] :
                  ps \in SUBSET {"coverImage"}}
          \cup {[NewReq("channel") EXCEPT !.param = un] : un \in Usernames}}

\* A client sends a request on a free connection.
Begin(s) ==
  /\ reqs[s] = Idle
  /\ \E r \in RegisterRequests \cup LoginRequests \cup RefreshRequests
              \cup ProtectedRequests :
       reqs' = [reqs EXCEPT ![s] = r]
  /\ UNCHANGED <<users, freeIds, clock, issued, disk>>

\* multer: the file parts of the request are written to ./public/temp, then
\* next(). upload.fields (register) sets req.files, upload.single sets req.file.
upload(s) ==
  /\ At(s) = "upload"
  /\ disk' = disk \cup {Path(s, f) : f \in reqs[s].parts}
  /\ reqs' = [reqs EXCEPT
       ![s].files = IF reqs[s].op = "register" THEN reqs[s].parts ELSE {},
       ![s].file = IF reqs[s].op = "register" THEN {} ELSE reqs[s].parts,
       ![s].pos = @ + 1,
       ![s].ran = @ \cup {"upload"}]
  /\ UNCHANGED <<users, freeIds, clock, issued>>

\* The client has read the answer; the connection is free again.
Close(s) ==
  /\ reqs[s].op # "idle"
  /\ reqs[s].pos = 0
  /\ reqs' = [reqs EXCEPT ![s] = Idle]
  /\ UNCHANGED <<users, freeIds, clock, issued, disk>>

(* ------------------------------- gate --------------------------------- *)

\* The token verifyJWT reads: the cookie, else the Authorization header's.
GateToken(r) == IF r.cookieAccess # NoToken THEN r.cookieAccess ELSE r.bearer

\* A gate that calls next() whatever it was given.
GateAcceptsAnything(us, token, now) == TRUE

\* verifyJWT's try block runs through: a token is present, jwt.verify accepts
\* it under the access secret, and the account of its _id exists.
GateAccepts(us, token, now) ==
  /\ token # NoToken
  /\ jwtVerify(token, "access", now)
  /\ findById(us, token.id) # NoDoc

\* verifyJWT: attach the sanitized account and next(), or 401.
verifyJWT(s) ==
  /\ At(s) = "verifyJWT"
  /\ LET token == GateToken(reqs[s])
     IN IF GateAccepts(users, token, clock)
        THEN reqs' = [reqs EXCEPT ![s].user = Sanitize(findById(users, token.id)),
                                  ![s].pos = @ + 1,
                                  ![s].ran = @ \cup {"verifyJWT"}]
        ELSE Answer(s, "verifyJWT", ErrorRes(ApiError(401)))
  /\ UNCHANGED <<users, freeIds, clock, issued, disk>>

(* ----------------------------- handlers ------------------------------- *)

\* Every value taken as given: the update sets both fields whatever they are.
FalsyNothing(x) == FALSE

\* A value JavaScript takes for false in !email, !fullName: undefined or "".
Falsy(x) == x = Undef \/ x = ""

\* generateAccessAndRefreshTokens(userId): find the account, mint both tokens,
\* store the refresh token on the account and save; ok is FALSE when the try
\* block throws (no such account), which the catch turns into ApiError(500).
generateAccessAndRefreshTokens(us, userId, now) ==
  LET user == findById(us, userId)
  IN IF user = NoDoc
     THEN [ok |-> FALSE, accessToken |-> NoToken, refreshToken |-> NoToken,
           users |-> us]
     ELSE [ok |-> TRUE,
           accessToken |-> generateAccessToken(user, now),
           refreshToken |-> generateRefreshToken(user, now),
           users |-> [us EXCEPT ![userId].refreshToken =
                                    generateRefreshToken(user, now)]]

\* registerUser's try block and its catch block: the error thrown (NoError for
\* none), the collection and the disk they leave.
NoError == [name |-> "none", statusCode |-> 0]

RegisterOutcome(s, r, upA, upC) ==
  LET b == r.body
      empty == \E field \in {b.fullName, b.email, b.username, b.password} :
                 field = ""
      existedUser == findOne(users, b.email, b.username)
      hasA == "avatar" \in r.files
      hasC == "coverImage" \in r.files
      avatar == uploadOnCloudinary(hasA, Path(s, "avatar"), upA, disk)
      coverImage ==
        uploadOnCloudinary(hasC, Path(s, "coverImage"), upC, avatar.disk)
      doc == [id |-> nextId, fullName |-> b.fullName, avatar |-> avatar.url,
              coverImage |-> coverImage.url, email |-> Lower(b.email),
              password |-> Hash(b.password), username |-> Lower(b.username),
              refreshToken |-> NoToken]
      early == empty \/ existedUser # NoDoc \/ ~hasA
      error ==
        CASE empty -> ApiError(400)
          [] existedUser # NoDoc -> ApiError(409)
          [] ~hasA -> ApiError(400)
          [] avatar.url = "" -> ApiError(400)
          [] b.username = Undef -> PlainError("TypeError")
          [] Undef \in {b.fullName, b.email, b.password} ->
               PlainError("ValidationError")
          [] DuplicateKey(users, nextId, doc) -> PlainError("MongoServerError")
          [] OTHER -> NoError
      thrownAt == IF early THEN disk ELSE coverImage.disk
      caught ==
        LET d1 == IF hasA THEN deleteFile(Path(s, "avatar"), thrownAt)
                  ELSE thrownAt
        IN IF hasC THEN deleteFile(Path(s, "coverImage"), d1) ELSE d1
  IN IF error # NoError
     THEN [res |-> ErrorRes(error), users |-> users, freeIds |-> freeIds,
           disk |-> caught]
     ELSE [res |-> [NoRes EXCEPT !.status = 201, !.user = Sanitize(doc)],
           users |-> users @@ (nextId :> doc),
           freeIds |-> freeIds \ {nextId},
           disk |-> coverImage.disk]

\* registerUser under asyncHandler: the outcome, then the wrapper's finally.
registerUser(s) ==
  /\ At(s) = "registerUser"
  /\ \E upA \in {"", "url1"}, upC \in {"", "cover1"} :
       LET o == RegisterOutcome(s, reqs[s], upA, upC)
           fin == Finally(s, reqs[s].files, o.disk)
       IN /\ users' = o.users
          /\ freeIds' = o.freeIds
          /\ disk' = fin.disk
          /\ Answer(s, "registerUser",
                    [o.res EXCEPT !.unhandled = fin.unhandled])
  /\ UNCHANGED <<clock, issued>>

\* The destructuring without await: a Promise has neither key.
LoginTokensNoAwait(gen) == [accessToken |-> NoToken, refreshToken |-> NoToken]

\* const { accessToken, refreshToken } = await generateAccessAndRefreshTokens(..)
LoginTokens(gen) ==
  [accessToken |-> gen.accessToken, refreshToken |-> gen.refreshToken]

\* loginUser: 400 without identifier, 404 for no account, the password check,
\* then the token pair stored, set as cookies and returned with the account.
loginUser(s) ==
  /\ At(s) = "loginUser"
  /\ LET b == reqs[s].body
         user == findOne(users, b.email, b.username)
         gen == generateAccessAndRefreshTokens(users, user.id, clock)
         got == LoginTokens(gen)
         error ==
           CASE Falsy(b.email) /\ Falsy(b.username) -> ApiError(400)
             [] user = NoDoc -> ApiError(404)
             [] ~isPasswordCorrect(user, b.password) -> CallWithoutNew(401)
             [] ~gen.ok -> ApiError(500)
             [] OTHER -> NoError
     IN IF error # NoError
        THEN /\ Answer(s, "loginUser", ErrorRes(error))
             /\ UNCHANGED <<users, issued>>
        ELSE /\ users' = gen.users
             /\ issued' = issued \cup ({got.accessToken, got.refreshToken}
                                        \ {NoToken})
             /\ Answer(s, "loginUser",
                  [NoRes EXCEPT !.status = 200,
                                !.cookieAccess = got.accessToken,
                                !.cookieRefresh = got.refreshToken,
                                !.user = Sanitize(findById(gen.users, user.id)),
                                !.accessToken = got.accessToken,
                                !.refreshToken = got.refreshToken])
  /\ UNCHANGED <<freeIds, clock, disk>>

\* A logout that takes an account without a stored renewal token for an error.
logoutUserOnce(s) ==
  /\ At(s) = "logoutUser"
  /\ LET id == reqs[s].user.id
     IN IF findById(users, id).refreshToken = NoToken
        THEN /\ Answer(s, "logoutUser", ErrorRes(PlainError("TypeError")))
             /\ UNCHANGED users
        ELSE /\ users' = [users EXCEPT ![id].refreshToken = NoToken]
             /\ Answer(s, "logoutUser",
                       [NoRes EXCEPT !.status = 200, !.cleared = TRUE])
  /\ UNCHANGED <<freeIds, clock, issued, disk>>

\* logoutUser: $unset refreshToken on the account of req.user._id, clear both
\* cookies. req.user._id throws a TypeError when no gate attached req.user.
logoutUser(s) ==
  /\ At(s) = "logoutUser"
  /\ LET id == reqs[s].user.id
     IN IF reqs[s].user = NoUser
        THEN /\ Answer(s, "logoutUser", ErrorRes(PlainError("TypeError")))
             /\ UNCHANGED users
        ELSE /\ users' = IF id \in DOMAIN users
                         THEN [users EXCEPT ![id].refreshToken = NoToken]
                         ELSE users
             /\ Answer(s, "logoutUser",
                       [NoRes EXCEPT !.status = 200, !.cleared = TRUE])
  /\ UNCHANGED <<freeIds, clock, issued, disk>>

\* The parameters of refreshAccessToken's handler function: async (rq, res).
RefreshHandlerParams == {"rq", "res"}

\* const { accessToken, newRefreshToken } = await generateAccessAndRefreshTokens(..):
\* the result has no newRefreshToken key.
RefreshTokens(gen) == [accessToken |-> gen.accessToken, newRefreshToken |-> NoToken]

\* const incomingRefreshToken = req.cookies.refreshToken || req.body.refreshToken
IncomingRefreshToken(r) ==
  IF r.cookieRefresh # NoToken THEN r.cookieRefresh ELSE r.body.refreshToken

\* The error refreshAccessToken ends with (NoError for none). Its body reads
\* req, which its parameters (rq, res) do not bind: a ReferenceError before
\* anything else. Were req bound: 401 without a token, then the try block
\* (verify, find the account, compare with the stored token, mint and store a
\* new pair), whose every error the catch turns into ApiError(401).
RefreshError(r, us, now) ==
  LET incomingRefreshToken == IncomingRefreshToken(r)
      user == findById(us, incomingRefreshToken.id)
  IN CASE "req" \notin RefreshHandlerParams -> PlainError("ReferenceError")
       [] incomingRefreshToken = NoToken -> ApiError(401)
       [] ~jwtVerify(incomingRefreshToken, "refresh", now) -> ApiError(401)
       [] user = NoDoc -> ApiError(401)
       [] incomingRefreshToken # user.refreshToken -> ApiError(401)
       [] ~generateAccessAndRefreshTokens(us, user.id, now).ok -> ApiError(401)
       [] OTHER -> NoError

\* refreshAccessToken: the error answered, or the new pair stored on the
\* account, set as cookies and returned.
refreshAccessToken(s) ==
  /\ At(s) = "refreshAccessToken"
  /\ LET error == RefreshError(reqs[s], users, clock)
         gen == generateAccessAndRefreshTokens(
                  users, IncomingRefreshToken(reqs[s]).id, clock)
         got == RefreshTokens(gen)
     IN IF error # NoError
        THEN /\ Answer(s, "refreshAccessToken", ErrorRes(error))
             /\ UNCHANGED <<users, issued>>
        ELSE /\ users' = gen.users
             /\ issued' = issued \cup ({got.accessToken, got.newRefreshToken}
                                        \ {NoToken})
             /\ Answer(s, "refreshAccessToken",
                  [NoRes EXCEPT !.status = 200,
                                !.cookieAccess = got.accessToken,
                                !.cookieRefresh = got.newRefreshToken,
                                !.accessToken = got.accessToken,
                                !.refreshToken = got.newRefreshToken])
  /\ UNCHANGED <<freeIds, clock, disk>>

\* A password change that also signs the account out.
changeCurrentPasswordSignsOut(s) ==
  /\ At(s) = "changeCurrentPassword"
  /\ users' = [i \in DOMAIN users |->
                IF i = reqs[s].user.id
                THEN [users[i] EXCEPT !.refreshToken = NoToken] ELSE users[i]]
  /\ Answer(s, "changeCurrentPassword", ErrorRes(PlainError("TypeError")))
  /\ UNCHANGED <<freeIds, clock, issued, disk>>

\* changeCurrentPassword: User.find(...) resolves to an array, which has no
\* isPasswordCorrect: a TypeError before the password is compared or stored.
changeCurrentPassword(s) ==
  /\ At(s) = "changeCurrentPassword"
  /\ Answer(s, "changeCurrentPassword", ErrorRes(PlainError("TypeError")))
  /\ UNCHANGED <<users, freeIds, clock, issued, disk>>

\* getCurrentUser: 200 with req.user.
getCurrentUser(s) ==
  /\ At(s) = "getCurrentUser"
  /\ Answer(s, "getCurrentUser",
            [NoRes EXCEPT !.status = 200, !.user = reqs[s].user])
  /\ UNCHANGED <<users, freeIds, clock, issued, disk>>

\* updateAccountDetails: 400 when neither field is given; else $set the given
\* fields on the account of req.user._id and return it sanitized (null when
\* the account is gone); a duplicate email breaks the unique index.
updateAccountDetails(s) ==
  /\ At(s) = "updateAccountDetails"
  /\ LET b == reqs[s].body
         id == reqs[s].user.id
         old == findById(users, id)
         new == [old EXCEPT
                   !.fullName = IF Falsy(b.fullName) THEN @ ELSE b.fullName,
                   !.email = IF Falsy(b.email) THEN @ ELSE Lower(b.email)]
         error ==
           CASE Falsy(b.fullName) /\ Falsy(b.email) -> ApiError(400)
             [] old # NoDoc /\ DuplicateKey(users, id, [new EXCEPT !.username = ""])
                  -> PlainError("MongoServerError")
             [] OTHER -> NoError
     IN IF error # NoError
        THEN /\ Answer(s, "updateAccountDetails", ErrorRes(error))
             /\ UNCHANGED users
        ELSE /\ users' = IF old = NoDoc THEN users ELSE [users EXCEPT ![id] = new]
             /\ Answer(s, "updateAccountDetails",
                  [NoRes EXCEPT !.status = 200,
                                !.user = IF old = NoDoc THEN NoUser
                                         ELSE Sanitize(new)])
  /\ UNCHANGED <<freeIds, clock, issued, disk>>

\* updateUserAvatar / updateUserCoverImage: 400 without req.file; upload it;
\* a failed upload's null has no url (TypeError); else $set the url on the
\* account and return it sanitized. req.files is not set on these routes, so
\* the wrapper's finally unlinks nothing.
UpdateImage(s, name, field, url) ==
  LET id == reqs[s].user.id
      old == findById(users, id)
      up == uploadOnCloudinary(field \in reqs[s].file, Path(s, field), url, disk)
      new == [old EXCEPT ![field] = up.url]
      error ==
        CASE field \notin reqs[s].file -> ApiError(400)
          [] up.url = "" -> PlainError("TypeError")
          [] OTHER -> NoError
      fin == Finally(s, reqs[s].files, up.disk)
  IN /\ disk' = fin.disk
     /\ IF error # NoError
        THEN /\ Answer(s, name, [ErrorRes(error) EXCEPT !.unhandled = fin.unhandled])
             /\ UNCHANGED users
        ELSE /\ users' = IF old = NoDoc THEN users ELSE [users EXCEPT ![id] = new]
             /\ Answer(s, name,
                  [NoRes EXCEPT !.status = 200,
                                !.user = IF old = NoDoc THEN NoUser
                                         ELSE Sanitize(new),
                                !.unhandled = fin.unhandled])

updateUserAvatar(s) ==
  /\ At(s) = "updateUserAvatar"
  /\ \E url \in {"", "url1"} : UpdateImage(s, "updateUserAvatar", "avatar", url)
  /\ UNCHANGED <<freeIds, clock, issued>>

updateUserCoverImage(s) ==
  /\ At(s) = "updateUserCoverImage"
  /\ \E url \in {"", "cover1"} :
       UpdateImage(s, "updateUserCoverImage", "coverImage", url)
  /\ UNCHANGED <<freeIds, clock, issued>>

\* getUserChannelUserProfile: the aggregation's result is an array, whose
\* "lenght" is undefined: !channel?.lenght holds whatever it matched, so 404.
getUserChannelUserProfile(s) ==
  /\ At(s) = "getUserChannelUserProfile"
  /\ LET channel == {i \in DOMAIN users : users[i].username = Lower(reqs[s].param)}
         error ==
           CASE Falsy(reqs[s].param) -> ApiError(400)
             [] channel = channel -> ApiError(404)
             [] OTHER -> NoError
     IN Answer(s, "getUserChannelUserProfile", ErrorRes(error))
  /\ UNCHANGED <<users, freeIds, clock, issued, disk>>

\* getWatchHistory: read-only; answers 200 with the watch history.
getWatchHistory(s) ==
  /\ At(s) = "getWatchHistory"
  /\ Answer(s, "getWatchHistory", [NoRes EXCEPT !.status = 200])
  /\ UNCHANGED <<users, freeIds, clock, issued, disk>>

(* ---------------------------- environment ----------------------------- *)

\* A second passes.
Tick ==
  /\ clock < MaxClock
  /\ clock' = clock + 1
  /\ UNCHANGED <<users, freeIds, issued, disk, reqs>>

\* An account document leaves the collection (the case verifyJWT and
\* refreshAccessToken test with !user); its tokens stay with the clients.
accountDeleted(id) ==
  /\ id \in DOMAIN users
  /\ users' = [j \in (DOMAIN users) \ {id} |-> users[j]]
  /\ UNCHANGED <<freeIds, clock, issued, disk, reqs>>

Next ==
  \/ \E s \in Slots :
       \/ Begin(s)
       \/ Close(s)
       \/ upload(s)
       \/ verifyJWT(s)
       \/ registerUser(s)
       \/ loginUser(s)
       \/ logoutUser(s)
       \/ refreshAccessToken(s)
       \/ changeCurrentPassword(s)
       \/ getCurrentUser(s)
       \/ updateAccountDetails(s)
       \/ updateUserAvatar(s)
       \/ updateUserCoverImage(s)
       \/ getUserChannelUserProfile(s)
       \/ getWatchHistory(s)
  \/ Tick
  \/ \E id \in UserIds : accountDeleted(id)

Spec == Init /\ [][Next]_vars

(* ------------------------------ claims -------------------------------- *)

\* The step that answers the request of slot s out of middleware name.
Answers(s, name) == At(s) = name /\ reqs'[s].pos = 0

\* The renewal token stored on the account of id ("none" when unset or no account).
Stored(id) == findById(users, id).refreshToken

\* A renewal token handed to a client.
IssuedRefresh(t) == t \in issued /\ t.typ = "refresh"

\* t was handed out for an account that now stores a different renewal token.
Superseded(t) ==
  /\ IssuedRefresh(t)
  /\ t.id \in DOMAIN users
  /\ Stored(t.id) \notin {t, NoToken}

\* A Renew presenting t now would be answered 200.
Redeemable(us, now, t) ==
  RefreshError([NewReq("refresh-token") EXCEPT !.cookieRefresh = t], us, now)
    = NoError

\* C1: once a renewal token has been superseded by a later login or renewal
\* of its account, a Renew that presents it is answered 401 (TokenReused),
\* hands out no token and leaves the stored renewal token as it is.
C1_SupersededRenewIs401 ==
  [][\A s \in Slots :
       (Answers(s, "refreshAccessToken")
        /\ Superseded(IncomingRefreshToken(reqs[s])))
       => /\ reqs'[s].res.status = 401
          /\ issued' = issued
          /\ users' = users]_vars

\* t was handed out for an account whose renewal token a logout has cleared.
LoggedOut(t) ==
  /\ IssuedRefresh(t)
  /\ t.id \in DOMAIN users
  /\ Stored(t.id) = NoToken

\* C2: a successful Logout leaves the account without a stored renewal token,
\* and until the next login a Renew that presents the token of before the
\* logout is answered 401.
C2_RenewAfterLogoutIs401 ==
  [][\A s \in Slots :
       /\ (Answers(s, "logoutUser") /\ reqs'[s].res.status = 200
           /\ reqs[s].user.id \in DOMAIN users)
          => users'[reqs[s].user.id].refreshToken = NoToken
       /\ (Answers(s, "refreshAccessToken")
           /\ LoggedOut(IncomingRefreshToken(reqs[s])))
          => reqs'[s].res.status = 401]_vars

\* C3: of the renewal tokens handed out for an account only the stored one
\* is redeemable, and a Login or Renew that stores a renewal token stores one
\* that differs from the token it replaces, so that every token handed out
\* before is unredeemable after it.
C3_OneRedeemableTokenPerAccount ==
  [][\A s \in Slots :
       /\ \A t \in issued :
            (IssuedRefresh(t) /\ Redeemable(users, clock, t)) => t = Stored(t.id)
       /\ ((Answers(s, "loginUser") \/ Answers(s, "refreshAccessToken"))
           /\ reqs'[s].res.status = 200)
          => \A i \in DOMAIN users :
               users'[i].refreshToken # users[i].refreshToken
               \/ reqs'[s].res.user.id # i]_vars

\* The accounts a login's identifier matches.
Matched(b) ==
  {i \in DOMAIN users : users[i].email = b.email \/ users[i].username = b.username}

C5_RenewRotatesAndReturnsTheToken ==
  [][\A s \in Slots :
       LET t == IncomingRefreshToken(reqs[s])
       IN (Answers(s, "refreshAccessToken")
           /\ IssuedRefresh(t) /\ t.id \in DOMAIN users
           /\ Stored(t.id) = t /\ clock < t.exp)
          => LET res == reqs'[s].res
             IN /\ res.status = 200
                /\ res.accessToken.typ = "access"
                /\ res.refreshToken.typ = "refresh"
                /\ res.cookieAccess = res.accessToken
                /\ res.cookieRefresh = res.refreshToken
                /\ users'[t.id].refreshToken = res.refreshToken
                /\ Redeemable(users', clock, res.refreshToken)]_vars

\* C6: a Login whose identifier matches an account and whose password does
\* not match its hash is answered 401 (InvalidCredentials), with no token in
\* body or cookie, no token handed out and the collection unchanged.
C6_WrongPasswordIs401 ==
  [][\A s \in Slots :
       (Answers(s, "loginUser")
        /\ Matched(reqs[s].body) # {}
        /\ \A i \in Matched(reqs[s].body) :
             ~isPasswordCorrect(users[i], reqs[s].body.password))
       => /\ reqs'[s].res.status = 401
          /\ reqs'[s].res.accessToken = NoToken
          /\ reqs'[s].res.refreshToken = NoToken
          /\ reqs'[s].res.cookieAccess = NoToken
          /\ reqs'[s].res.cookieRefresh = NoToken
          /\ issued' = issued
          /\ users' = users]_vars

\* C7: a Renew with no token in cookie or body, with a token whose signature
\* is not the renewal secret's or that has expired, or with a token of an
\* account that does not exist, is answered 401 and changes no account.
C7_RenewFailuresAre401 ==
  [][\A s \in Slots :
       LET t == IncomingRefreshToken(reqs[s])
       IN (Answers(s, "refreshAccessToken")
           /\ (t = NoToken \/ t.typ # "refresh" \/ clock >= t.exp
               \/ t.id \notin DOMAIN users))
          => /\ reqs'[s].res.status = 401
             /\ users' = users]_vars

\* The handlers of the protected routes.
ProtectedHandlers == {Route(op)[Len(Route(op))] : op \in ProtectedOps}

\* C8: on a protected route nothing runs behind the gate unless the gate has,
\* in the same request, verified an access token and attached the account of
\* the token's id; and the gate, given no token, a token that fails
\* verification or the token of an account that is gone, answers 401, lets
\* no handler run and changes no account.
C8_GateGuardsProtectedHandlers ==
  [][\A s \in Slots :
       /\ (reqs[s].op \in ProtectedOps /\ At(s) \notin {"", "verifyJWT"})
          => ("verifyJWT" \in reqs[s].ran /\ reqs[s].user.id \in UserIds)
       /\ (At(s) = "verifyJWT" /\ reqs'[s] # reqs[s])
          => LET t == GateToken(reqs[s])
             IN IF t.typ = "access" /\ clock < t.exp /\ t.id \in DOMAIN users
                THEN /\ reqs'[s].pos = reqs[s].pos + 1
                     /\ reqs'[s].user = Sanitize(users[t.id])
                ELSE /\ reqs'[s].pos = 0
                     /\ reqs'[s].res.status = 401
                     /\ reqs'[s].ran \cap ProtectedHandlers = {}
                     /\ users' = users]_vars

C8_Witness ==
  \E s \in Slots :
    /\ reqs[s].op = "logout"
    /\ reqs[s].ran = {"verifyJWT", "logoutUser"}
    /\ reqs[s].res.status = 200

\* The request of slot s has passed the gate.
PassedGate(s) ==
  /\ reqs[s].op \in ProtectedOps
  /\ "verifyJWT" \in reqs[s].ran
  /\ reqs[s].user # NoUser

\* C9 as stated: the gate accepts a login's access token exactly once before
\* it expires; once a request has passed the gate with it, the gate takes
\* it no more.
C9_AcceptedExactlyOnce ==
  \A s \in Slots :
    (PassedGate(s) /\ GateToken(reqs[s]) \in issued)
    => ~GateAccepts(users, GateToken(reqs[s]), clock)

\* C9, amended: a Login's access token expires AccessExpiry after the login;
\* the gate accepts every request that presents it before that, as long as
\* its account exists, and answers 401 from its expiry on.
C9_AcceptedUntilExpiry ==
  [][\A s \in Slots :
       /\ (Answers(s, "loginUser") /\ reqs'[s].res.status = 200)
          => /\ reqs'[s].res.accessToken \in issued'
             /\ reqs'[s].res.accessToken.exp = clock + AccessExpiry
       /\ (At(s) = "verifyJWT" /\ reqs'[s] # reqs[s]
           /\ GateToken(reqs[s]) \in issued
           /\ GateToken(reqs[s]).typ = "access")
          => LET t == GateToken(reqs[s])
             IN IF clock < t.exp /\ t.id \in DOMAIN users
                THEN reqs'[s].pos = reqs[s].pos + 1 /\ reqs'[s].user.id = t.id
                ELSE reqs'[s].pos = 0 /\ reqs'[s].res.status = 401]_vars

C9_Witness ==
  \E s \in Slots :
    /\ reqs[s].op = "current-user"
    /\ reqs[s].ran = {"verifyJWT"}
    /\ reqs[s].res.status = 401
    /\ GateToken(reqs[s]) \in issued
    /\ GateToken(reqs[s]).typ = "access"
    /\ GateToken(reqs[s]).id \in DOMAIN users
    /\ clock >= GateToken(reqs[s]).exp

\* C10: no account record in an answer or attached to a request holds the
\* account's password or its renewal token.
C10_NoSecretInAccountRecords ==
  \A s \in Slots :
    /\ {"password", "refreshToken"} \cap DOMAIN reqs[s].res.user = {}
    /\ {"password", "refreshToken"} \cap DOMAIN reqs[s].user = {}

C10_Witness ==
  \E s \in Slots :
    /\ reqs[s].op = "register"
    /\ reqs[s].res.status = 201
    /\ reqs[s].res.user.id \in DOMAIN users
    /\ reqs[s].res.user.username = users[reqs[s].res.user.id].username

(* ------------------- two connections, two accounts -------------------- *)

\* Two clients at once: the connections of the specifications below.
Conns == {1, 2}

\* The access tokens handed to clients so far.
AccessTokens == {t \in issued : t.typ = "access"}

\* A registration body with every field given.
RegisterBody(email, username) ==
  [NoBody EXCEPT !.fullName = "A", !.email = email, !.username = username,
                 !.password = "p1"]

\* Registrations of two people, and of names that differ from theirs by case only.
AccountsRegisterRequests ==
  IF freeIds = {} THEN {}
  ELSE {[NewReq("register") EXCEPT !.body = RegisterBody(id[1], id[2]),
                                   !.parts = {"avatar"}] :
          id \in {<<"a@x.com", "alice">>, <<"b@x.com", "bob">>,
                  <<"b@x.com", "Alice">>, <<"A@x.com", "bob">>}}

AccountsLoginRequests ==
  {[NewReq("login") EXCEPT !.body = [NoBody EXCEPT !.email = em, !.password = "p1"]] :
     em \in Emails}

AccountsUpdateRequests ==
  {[NewReq("update-account") EXCEPT
      !.cookieAccess = c, !.body.fullName = fn, !.body.email = em] :
     c \in AccessTokens, fn \in {Undef, "B"}, em \in {Undef, "B@x.com"}}

\* A client sends a registration, a login or an account update.
BeginAccounts(s) ==
  /\ reqs[s] = Idle
  /\ \E r \in AccountsRegisterRequests \cup AccountsLoginRequests
              \cup AccountsUpdateRequests :
       reqs' = [reqs EXCEPT ![s] = r]
  /\ UNCHANGED <<users, freeIds, clock, issued, disk>>

\* registerUser up to its first await on the store: the validation and the
\* findOne, whose failures go through the catch block and the wrapper's
\* finally; when both pass, the handler goes on to the uploads.
registerUserFindOne(s) ==
  /\ At(s) = "registerUser"
  /\ "findOne" \notin reqs[s].ran
  /\ LET b == reqs[s].body
         empty == \E field \in {b.fullName, b.email, b.username, b.password} :
                    field = ""
         existedUser == findOne(users, b.email, b.username)
         o == RegisterOutcome(s, reqs[s], "url1", "cover1")
         fin == Finally(s, reqs[s].files, o.disk)
     IN IF empty \/ existedUser # NoDoc
        THEN /\ disk' = fin.disk
             /\ Answer(s, "registerUser",
                       [o.res EXCEPT !.unhandled = fin.unhandled])
        ELSE /\ reqs' = [reqs EXCEPT ![s].ran = @ \cup {"findOne"}]
             /\ UNCHANGED disk
  /\ UNCHANGED <<users, freeIds, clock, issued>>

\* registerUser from the uploads on: the avatar check, the uploads,
\* User.create (setters, required fields, the unique indexes) and the answer;
\* the collection is the one of now, not the one findOne saw.
RegisterCreateOutcome(s, r, upA, upC) ==
  LET b == r.body
      hasA == "avatar" \in r.files
      hasC == "coverImage" \in r.files
      avatar == uploadOnCloudinary(hasA, Path(s, "avatar"), upA, disk)
      coverImage ==
        uploadOnCloudinary(hasC, Path(s, "coverImage"), upC, avatar.disk)
      doc == [id |-> nextId, fullName |-> b.fullName, avatar |-> avatar.url,
              coverImage |-> coverImage.url, email |-> Lower(b.email),
              password |-> Hash(b.password), username |-> Lower(b.username),
              refreshToken |-> NoToken]
      error ==
        CASE ~hasA -> ApiError(400)
          [] avatar.url = "" -> ApiError(400)
          [] b.username = Undef -> PlainError("TypeError")
          [] Undef \in {b.fullName, b.email, b.password} ->
               PlainError("ValidationError")
          [] DuplicateKey(users, 0, [username |-> Lower(b.username),
                                     email |-> Lower(b.email)])
               -> PlainError("MongoServerError")
          [] freeIds = {} -> PlainError("MongoServerError")
          [] OTHER -> NoError
      thrownAt == IF ~hasA THEN disk ELSE coverImage.disk
      caught ==
        LET d1 == IF hasA THEN deleteFile(Path(s, "avatar"), thrownAt)
                  ELSE thrownAt
        IN IF hasC THEN deleteFile(Path(s, "coverImage"), d1) ELSE d1
  IN IF error # NoError
     THEN [res |-> ErrorRes(error), users |-> users, freeIds |-> freeIds,
           disk |-> caught]
     ELSE [res |-> [NoRes EXCEPT !.status = 201, !.user = Sanitize(doc)],
           users |-> users @@ (nextId :> doc),
           freeIds |-> freeIds \ {nextId},
           disk |-> coverImage.disk]

registerUserCreate(s) ==
  /\ At(s) = "registerUser"
  /\ "findOne" \in reqs[s].ran
  /\ \E upA \in {"", "url1"} :
       LET o == RegisterCreateOutcome(s, reqs[s], upA, "cover1")
           fin == Finally(s, reqs[s].files, o.disk)
       IN /\ users' = o.users
          /\ freeIds' = o.freeIds
          /\ disk' = fin.disk
          /\ Answer(s, "registerUser",
                    [o.res EXCEPT !.unhandled = fin.unhandled])
  /\ UNCHANGED <<clock, issued>>

InitAccounts ==
  /\ users = <<>>
  /\ freeIds = UserIds
  /\ clock = 0
  /\ issued = {}
  /\ disk = {}
  /\ reqs = [s \in Conns |-> Idle]

NextAccounts ==
  \E s \in Conns :
    \/ BeginAccounts(s)
    \/ Close(s)
    \/ upload(s)
    \/ verifyJWT(s)
    \/ registerUserFindOne(s)
    \/ registerUserCreate(s)
    \/ loginUser(s)
    \/ updateAccountDetails(s)

SpecAccounts == InitAccounts /\ [][NextAccounts]_vars

\* The accounts that hold the email or the username of a body, normalised.
Taken(b) ==
  {i \in DOMAIN users :
     users[i].email = Lower(b.email) \/ users[i].username = Lower(b.username)}

\* Every field of a registration body is given and not empty.
WellFormed(b) ==
  \A field \in {b.fullName, b.email, b.username, b.password} :
    field \notin {Undef, ""}

\* C11: a Register whose email or username is, in lowercase, the email or
\* the username of an account that exists when the handler looks it up is
\* answered 409 (Conflict), creates no account and changes none.
C11_DuplicateRegisterIs409 ==
  [][\A s \in DOMAIN reqs :
       (At(s) = "registerUser" /\ reqs'[s] # reqs[s]
        /\ "findOne" \notin reqs[s].ran
        /\ WellFormed(reqs[s].body) /\ Taken(reqs[s].body) # {})
       => /\ reqs'[s].pos = 0
          /\ reqs'[s].res.status = 409
          /\ users' = users]_vars

C11_Witness ==
  \E s \in DOMAIN reqs :
    /\ reqs[s].op = "register"
    /\ reqs[s].pos = 0
    /\ reqs[s].res.status = 409
    /\ reqs[s].body.username = "Alice"
    /\ \E i \in DOMAIN users : users[i].username = "alice"

\* C12: a Register in which one of fullName, email, username, password is
\* missing or empty, or that brings no avatar file, is answered 400
\* (ValidationError) and creates no account.
C12_IncompleteRegisterIs400 ==
  [][\A s \in Slots :
       (Answers(s, "registerUser") /\ Taken(reqs[s].body) = {}
        /\ (~WellFormed(reqs[s].body) \/ "avatar" \notin reqs[s].files))
       => /\ reqs'[s].res.status = 400
          /\ users' = users]_vars

\* C13: no two accounts share a username or an email, and every stored
\* username and email is in lowercase, whatever the interleaving of two
\* clients' registrations and account updates.
C13_UniqueAndLowercase ==
  /\ \A i \in DOMAIN users : \A j \in DOMAIN users :
       i # j => /\ users[i].username # users[j].username
                /\ users[i].email # users[j].email
  /\ \A i \in DOMAIN users :
       /\ users[i].username = Lower(users[i].username)
       /\ users[i].email = Lower(users[i].email)

\* Two registrations of one name interleaved: both passed the findOne, one
\* created the account, the other lost to the unique index.
C13_Witness ==
  \E s \in DOMAIN reqs : \E i \in DOMAIN users :
    /\ reqs[s].op = "register"
    /\ "findOne" \in reqs[s].ran
    /\ reqs[s].res.status = 500
    /\ users[i].username = Lower(reqs[s].body.username)
    /\ users[i].email = Lower(reqs[s].body.email)

C15_ChangePasswordChecksAndStores ==
  [][\A s \in Slots :
       (Answers(s, "changeCurrentPassword") /\ reqs[s].user.id \in DOMAIN users)
       => LET id == reqs[s].user.id
              b == reqs[s].body
          IN IF isPasswordCorrect(users[id], b.oldPassword)
             THEN /\ reqs'[s].res.status = 200
                  /\ users'[id].password = Hash(b.newPassword)
             ELSE /\ reqs'[s].res.status = 401
                  /\ users'[id].password = users[id].password]_vars

\* The renewal token t is the stored one of its account and verifies now:
\* the token a Renew is to redeem.
StoredAndValid(us, now, t) ==
  /\ t.typ = "refresh"
  /\ t.id \in DOMAIN us
  /\ us[t.id].refreshToken = t
  /\ now < t.exp

\* C16: a Change Password, whatever its answer, leaves every account's stored
\* renewal token as it was: the token a Renew was to redeem before it is the
\* one it is to redeem after it.
C16_ChangePasswordKeepsRenewalToken ==
  [][\A s \in Slots :
       Answers(s, "changeCurrentPassword")
       => /\ DOMAIN users' = DOMAIN users
          /\ \A i \in DOMAIN users :
               users'[i].refreshToken = users[i].refreshToken
          /\ \A t \in issued :
               StoredAndValid(users, clock, t) => StoredAndValid(users', clock', t)]_vars

C16_Witness ==
  \E s \in Slots :
    /\ reqs[s].op = "change-password"
    /\ "changeCurrentPassword" \in reqs[s].ran
    /\ reqs[s].pos = 0
    /\ \E t \in issued : t.id = reqs[s].user.id /\ StoredAndValid(users, clock, t)

\* C17: a channel profile is answered 404 exactly when no account has the
\* username, in lowercase, that was asked for, and changes no account.
C17_ChannelIs404OnlyForNoAccount ==
  [][\A s \in Slots :
       (Answers(s, "getUserChannelUserProfile")
        /\ reqs[s].param \notin {Undef, ""})
       => /\ (reqs'[s].res.status = 404)
               <=> ~(\E i \in DOMAIN users :
                       users[i].username = Lower(reqs[s].param))
          /\ users' = users]_vars

\* C19: when a register, avatar or cover-image request that multer wrote temp
\* files for has been answered, none of its temp files is on the disk.
C19_NoTempFileLeftBehind ==
  \A s \in DOMAIN reqs :
    (reqs[s].op \in {"register", "avatar", "cover-image"}
     /\ "upload" \in reqs[s].ran /\ reqs[s].pos = 0)
    => \A f \in FileFields : Path(s, f) \notin disk

C19_Witness ==
  \E s \in DOMAIN reqs :
    /\ reqs[s].op = "avatar"
    /\ reqs[s].parts = {"avatar"}
    /\ reqs[s].ran = {"verifyJWT", "upload", "updateUserAvatar"}
    /\ reqs[s].res.status = 200
    /\ Path(s, "avatar") \notin disk

(* ------------------ two connections, one account's session ------------- *)

\* One person's requests from two clients: register, login, logout with an
\* access token that was handed out, renew with a renewal token that was.
SessionsRequests ==
  (IF freeIds = {} THEN {}
   ELSE {[NewReq("register") EXCEPT !.body = RegisterBody("a@x.com", "alice"),
                                    !.parts = {"avatar"}]})
  \cup {[NewReq("login") EXCEPT
           !.body = [NoBody EXCEPT !.email = "a@x.com", !.password = "p1"]]}
  \cup {[NewReq("logout") EXCEPT !.cookieAccess = c] : c \in AccessTokens}
  \cup {[NewReq("refresh-token") EXCEPT !.cookieRefresh = c] :
          c \in issued \ AccessTokens}

BeginSessions(s) ==
  /\ reqs[s] = Idle
  /\ \E r \in SessionsRequests : reqs' = [reqs EXCEPT ![s] = r]
  /\ UNCHANGED <<users, freeIds, clock, issued, disk>>

InitSessions ==
  /\ users = <<>>
  /\ freeIds = {1}
  /\ clock = 0
  /\ issued = {}
  /\ disk = {}
  /\ reqs = [s \in Conns |-> Idle]

NextSessions ==
  \/ \E s \in Conns :
       \/ BeginSessions(s)
       \/ Close(s)
       \/ upload(s)
       \/ verifyJWT(s)
       \/ registerUser(s)
       \/ loginUser(s)
       \/ logoutUser(s)
       \/ refreshAccessToken(s)
  \/ Tick

SpecSessions == InitSessions /\ [][NextSessions]_vars

C20_ConcurrentRenewsLastWriteWins ==
  [][\A s \in DOMAIN reqs :
       LET t == IncomingRefreshToken(reqs[s])
       IN (Answers(s, "refreshAccessToken")
           /\ StoredAndValid(users, clock, t)
           /\ \E o \in (DOMAIN reqs) \ {s} :
                /\ reqs[o].op = "refresh-token"
                /\ IncomingRefreshToken(reqs[o]) = t)
          => /\ reqs'[s].res.status = 200
             /\ users' = [users EXCEPT ![t.id].refreshToken =
                                         generateRefreshToken(users[t.id], clock)]]_vars

\* C21: deleting a temp file that an earlier cleanup step of the same request
\* has already deleted fails without consequence: no answered request has
\* let a failure out of the request wrapper unhandled.
C21_DeletionFailureNeverEscapes ==
  \A s \in DOMAIN reqs : ~reqs[s].res.unhandled

=============================================================================
